---- MODULE Spec2Model ----
(***************************************************************************)
(* ChordLab (src/index.tsx, the Pop/Jazz/Blues revision at lines 848-1910): *)
(* the music-theory engine (scale, chord catalog, voicings, transition      *)
(* classifier) and the App component's state (key selection, progression,   *)
(* selected chord).                                                         *)
(*                                                                          *)
(* JavaScript strings are TLA+ strings; JavaScript arrays are sequences,    *)
(* read with At (0-based index).  null is the empty tuple and a present     *)
(* nullable number v is <<v>>.  Object references are explicit: a catalog   *)
(* chord is <<"cat", k>> (the k-th element of allChords), a chord object    *)
(* created by addChord is <<"obj", a>> (heap[a]).                           *)
(*                                                                          *)
(* Four specifications: Spec is the App component under its event           *)
(* handlers; SpecEngine applies generateKeyChords, the scale tones,         *)
(* getQualityFromIntervals and createVoicingFromShape to every input,       *)
(* unregistered scale names included; SpecTransition applies                *)
(* getTransitionInfo to every ordered pair                                  *)
(* of chords of a catalog; SpecSound applies playSound to every catalog     *)
(* chord on each of its voicings and getNoteAtFret to every string and      *)
(* fret.  The variable call holds the engine call in progress (null in      *)
(* Spec); a call ends with pc "return" or, when it throws, "throw".         *)
(***************************************************************************)
EXTENDS Integers, Sequences, FiniteSets, TLC

VARIABLES root, scaleType, style, allChords, heap, progression, selectedChord,
          now, call

vars == <<root, scaleType, style, allChords, heap, progression, selectedChord,
          now, call>>

appVars == <<root, scaleType, style, allChords, heap, progression,
             selectedChord, now>>

\* ------------------------------------------------------------------ bounds

\* Longest progression the model lets addChord build.
MaxProg == 2

\* Largest value of Date.now() (milliseconds since the session started).
MaxClock == 1

\* The palette buttons clicked are the first MaxButtons of each section.
MaxButtons == 1

\* The selectors are moved among their first MaxSel + 1 options.
MaxSel == 1

\* ------------------------------------------------------- JavaScript helpers

null == <<>>

At(arr, i) == arr[i + 1]

\* Array.prototype.indexOf: the first 0-based position of x, or -1.
IndexOf(arr, x) ==
    IF \E k \in 1..Len(arr) : arr[k] = x
    THEN (CHOOSE k \in 1..Len(arr) :
              arr[k] = x /\ \A j \in 1..(k - 1) : arr[j] # x) - 1
    ELSE -1

\* Array.prototype.filter(f => f !== -1) on a fret array.
RECURSIVE Played(_)
Played(frets) ==
    IF frets = <<>> THEN <<>>
    ELSE IF Head(frets) # -1 THEN <<Head(frets)>> \o Played(Tail(frets))
    ELSE Played(Tail(frets))

Infinity == "Infinity"

\* Math.min(...arr): the least element, Infinity for no arguments.
MathMin(arr) ==
    IF arr = <<>> THEN Infinity
    ELSE CHOOSE m \in {arr[k] : k \in 1..Len(arr)} :
             \A k \in 1..Len(arr) : m <= arr[k]

\* String.prototype.startsWith
StartsWith(s, p) == Len(s) >= Len(p) /\ SubSeq(s, 1, Len(p)) = p

\* String.prototype.includes
Includes(s, p) ==
    \E k \in 1..(Len(s) - Len(p) + 1) : SubSeq(s, k, k + Len(p) - 1) = p

UpperChar(c) ==
    CASE c = "i" -> "I"
      [] c = "v" -> "V"
      [] OTHER -> c

\* String.prototype.toUpperCase over the alphabet of ROMAN_NUMERALS.
RECURSIVE ToUpperCase(_)
ToUpperCase(s) ==
    IF Len(s) = 0 THEN ""
    ELSE UpperChar(SubSeq(s, 1, 1)) \o ToUpperCase(SubSeq(s, 2, Len(s)))

\* String.prototype.replace(pat, rep) with a string pattern: the first
\* occurrence only.
Replace(s, pat, rep) ==
    IF Includes(s, pat)
    THEN LET k == CHOOSE k \in 1..(Len(s) - Len(pat) + 1) :
                      /\ SubSeq(s, k, k + Len(pat) - 1) = pat
                      /\ \A j \in 1..(k - 1) :
                             SubSeq(s, j, j + Len(pat) - 1) # pat
         IN SubSeq(s, 1, k - 1) \o rep \o SubSeq(s, k + Len(pat), Len(s))
    ELSE s

\* ------------------------------------------------------ music theory engine

ALL_NOTES == <<"C", "C#", "D", "D#", "E", "F", "F#", "G", "G#", "A", "A#", "B">>

\* Object.keys(SCALE_PATTERNS), in insertion order.
SCALE_NAMES ==
    <<"Major", "Natural Minor", "Melodic Minor (Jazz)", "Harmonic Minor",
      "Dorian", "Mixolydian", "Locrian", "Phrygian", "Lydian">>

SCALE_PATTERNS ==
    [n \in {SCALE_NAMES[k] : k \in 1..Len(SCALE_NAMES)} |->
        CASE n = "Major" -> <<0, 2, 4, 5, 7, 9, 11>>
          [] n = "Natural Minor" -> <<0, 2, 3, 5, 7, 8, 10>>
          [] n = "Melodic Minor (Jazz)" -> <<0, 2, 3, 5, 7, 9, 11>>
          [] n = "Harmonic Minor" -> <<0, 2, 3, 5, 7, 8, 11>>
          [] n = "Dorian" -> <<0, 2, 3, 5, 7, 9, 10>>
          [] n = "Mixolydian" -> <<0, 2, 4, 5, 7, 9, 10>>
          [] n = "Locrian" -> <<0, 1, 3, 5, 6, 8, 10>>
          [] n = "Phrygian" -> <<0, 1, 3, 5, 7, 8, 10>>
          [] n = "Lydian" -> <<0, 2, 4, 6, 7, 9, 11>>]

\* The ids of MUSIC_STYLES.
MUSIC_STYLES == <<"Pop", "Jazz", "Blues">>

ROMAN_NUMERALS == <<"i", "ii", "iii", "iv", "v", "vi", "vii">>

SHAPE_KEYS ==
    {"", "m", "dim", "sus4", "sus2", "add9", "6", "maj7", "m7", "7", "7sus4",
     "m7b5", "dim7"}

CHORD_SHAPES ==
    [k \in SHAPE_KEYS |->
        CASE k = "" -> [eShape |-> <<0, 2, 2, 1, 0, 0>>,
                        aShape |-> <<-1, 0, 2, 2, 2, 0>>]
          [] k = "m" -> [eShape |-> <<0, 2, 2, 0, 0, 0>>,
                         aShape |-> <<-1, 0, 2, 2, 1, 0>>]
          [] k = "dim" -> [eShape |-> <<0, 1, 2, 0, -1, -1>>,
                           aShape |-> <<-1, 0, 1, 2, 1, -1>>]
          [] k = "sus4" -> [eShape |-> <<0, 2, 2, 2, 0, 0>>,
                            aShape |-> <<-1, 0, 2, 2, 3, 0>>]
          [] k = "sus2" -> [eShape |-> <<0, 2, 4, 4, 0, 0>>,
                            aShape |-> <<-1, 0, 2, 2, 0, 0>>]
          [] k = "add9" -> [eShape |-> <<0, 2, 4, 1, 0, 0>>,
                            aShape |-> <<-1, 0, 2, 4, 2, 0>>]
          [] k = "6" -> [eShape |-> <<0, 2, 2, 1, 2, 0>>,
                         aShape |-> <<-1, 0, 2, 2, 2, 2>>]
          [] k = "maj7" -> [eShape |-> <<0, 2, 1, 1, 0, 0>>,
                            aShape |-> <<-1, 0, 2, 1, 2, 0>>]
          [] k = "m7" -> [eShape |-> <<0, 2, 0, 0, 0, 0>>,
                          aShape |-> <<-1, 0, 2, 0, 1, 0>>]
          [] k = "7" -> [eShape |-> <<0, 2, 0, 1, 0, 0>>,
                         aShape |-> <<-1, 0, 2, 0, 2, 0>>]
          [] k = "7sus4" -> [eShape |-> <<0, 2, 0, 2, 0, 0>>,
                             aShape |-> <<-1, 0, 2, 0, 3, 0>>]
          [] k = "m7b5" -> [eShape |-> <<0, -1, 0, 0, -1, -1>>,
                            aShape |-> <<-1, 0, 1, 0, 1, -1>>]
          [] k = "dim7" -> [eShape |-> <<0, 1, 0, 0, -1, -1>>,
                            aShape |-> <<-1, 0, 1, 2, 1, -1>>]]

INVERSION_SHAPES ==
    [k \in {"Maj_3_E", "Maj_3_A", "Min_3_E", "Min_3_A", "Maj_5_E"} |->
        CASE k = "Maj_3_E" -> <<0, -1, -2, 0, 1, -1>>
          [] k = "Maj_3_A" -> <<-1, 0, -2, -2, -2, 1>>
          [] k = "Min_3_E" -> <<0, -1, -1, 1, 2, -1>>
          [] k = "Min_3_A" -> <<-1, 0, -1, -1, -2, -1>>
          [] k = "Maj_5_E" -> <<0, 0, 2, 2, 2, 0>>]

GUITAR_TUNING ==
    <<[note |-> "E", octave |-> 2], [note |-> "A", octave |-> 2],
      [note |-> "D", octave |-> 3], [note |-> "G", octave |-> 3],
      [note |-> "B", octave |-> 3], [note |-> "E", octave |-> 4]>>

\* getNoteAtFret without the octave boost: every note in the open string's
\* octave.
getNoteAtFretNoBoost(stringIdx, fret) ==
    IF fret = -1 THEN null
    ELSE [note |-> At(ALL_NOTES,
                      (IndexOf(ALL_NOTES, At(GUITAR_TUNING, stringIdx).note)
                       + fret) % 12),
          octave |-> At(GUITAR_TUNING, stringIdx).octave]

getNoteAtFret(stringIdx, fret) ==
    IF fret = -1 THEN null
    ELSE LET openNote == At(GUITAR_TUNING, stringIdx)
             openNoteIdx == IndexOf(ALL_NOTES, openNote.note)
             totalSemis == openNoteIdx + fret
             noteName == At(ALL_NOTES, totalSemis % 12)
             octaveBoost == totalSemis \div 12
         IN [note |-> noteName, octave |-> openNote.octave + octaveBoost]

\* The shift with every fret above 12 folded down an octave, whatever the
\* template's first entry.
createVoicingFoldsAbove12(shape, rootFret) ==
    [k \in 1..Len(shape) |->
        IF shape[k] = -1 THEN -1
        ELSE IF shape[k] + rootFret > 12 THEN shape[k] + rootFret - 12
        ELSE shape[k] + rootFret]

createVoicingFromShape(shape, rootFret) ==
    [k \in 1..Len(shape) |->
        LET f == shape[k] IN
        IF f = -1 THEN -1
        ELSE IF /\ f + rootFret > 12
                /\ At(shape, 0) # -1
                /\ At(shape, 0) + rootFret > 12
             THEN f + rootFret - 12
             ELSE f + rootFret]

createInversionVoicing(shape, bassFret) ==
    LET frets == [k \in 1..Len(shape) |->
                     IF shape[k] = -1 THEN -1 ELSE shape[k] + bassFret]
    IN IF \E k \in 1..Len(frets) : frets[k] < 0 /\ frets[k] # -1
       THEN null
       ELSE frets

\* The classifier with the rows of maj7 and 7 exchanged.
getQualitySeventhsSwapped(third, fifth, seventh) ==
    IF seventh # null /\ third = 4 /\ fifth = 7 /\ seventh[1] = 10 THEN "maj7"
    ELSE IF seventh # null /\ third = 4 /\ fifth = 7 /\ seventh[1] = 11 THEN "7"
    ELSE IF seventh # null /\ third = 3 /\ fifth = 7 /\ seventh[1] = 10 THEN "m7"
    ELSE IF seventh # null /\ third = 3 /\ fifth = 7 /\ seventh[1] = 11 THEN "mMaj7"
    ELSE IF seventh # null /\ third = 3 /\ fifth = 6 /\ seventh[1] = 10 THEN "m7b5"
    ELSE IF seventh # null /\ third = 3 /\ fifth = 6 /\ seventh[1] = 9 THEN "dim7"
    ELSE IF third = 4 /\ fifth = 7 THEN ""
    ELSE IF third = 3 /\ fifth = 7 THEN "m"
    ELSE IF third = 3 /\ fifth = 6 THEN "dim"
    ELSE ""

getQualityFromIntervals(third, fifth, seventh) ==
    IF seventh # null /\ third = 4 /\ fifth = 7 /\ seventh[1] = 11 THEN "maj7"
    ELSE IF seventh # null /\ third = 4 /\ fifth = 7 /\ seventh[1] = 10 THEN "7"
    ELSE IF seventh # null /\ third = 3 /\ fifth = 7 /\ seventh[1] = 10 THEN "m7"
    ELSE IF seventh # null /\ third = 3 /\ fifth = 7 /\ seventh[1] = 11 THEN "mMaj7"
    ELSE IF seventh # null /\ third = 3 /\ fifth = 6 /\ seventh[1] = 10 THEN "m7b5"
    ELSE IF seventh # null /\ third = 3 /\ fifth = 6 /\ seventh[1] = 9 THEN "dim7"
    ELSE IF third = 4 /\ fifth = 7 THEN ""
    ELSE IF third = 3 /\ fifth = 7 THEN "m"
    ELSE IF third = 3 /\ fifth = 6 THEN "dim"
    ELSE ""

\* `Math.min(...frets.filter(fr => fr !== -1)) || 1` for the played frets of
\* a voicing: 0 is falsy.
orOne(played) ==
    IF played = <<>> THEN Infinity
    ELSE IF MathMin(played) = 0 THEN 1
    ELSE MathMin(played)

baseFretOf(frets) == orOne(Played(frets))

\* `${rootFret || 12}`
FretLabel(rootFret) == IF rootFret = 0 THEN ToString(12) ELSE ToString(rootFret)

\* The fret taken as the note's index, the open string's index forgotten.
fretOnFromC(stringNote, n) == IndexOf(ALL_NOTES, n)

\* `(ALL_NOTES.indexOf(n) - stringIdx + 12) % 12`: the fret of note n on the
\* string tuned to stringNote.
fretOn(stringNote, n) ==
    (IndexOf(ALL_NOTES, n) - IndexOf(ALL_NOTES, stringNote) + 12) % 12

\* The shape template buildChord picks for quality q.
shapeKeyOf(q) ==
    IF q \notin DOMAIN CHORD_SHAPES
    THEN IF q = "mMaj7" THEN "m7"
         ELSE IF StartsWith(q, "m") THEN "m"
         ELSE IF StartsWith(q, "dim") THEN "dim"
         ELSE ""
    ELSE q

\* `CHORD_SHAPES[shapeKey] || CHORD_SHAPES['']`
shapeTemplateOf(shapeKey) ==
    IF shapeKey \in DOMAIN CHORD_SHAPES
    THEN CHORD_SHAPES[shapeKey] ELSE CHORD_SHAPES[""]

\* The E-shape or A-shape voicing pushed for the shifted frets.
shapeVoicing(frets, rootFret, openName, barreName) ==
    [name |-> IF ~((\E k \in 1..Len(frets) : frets[k] > 0) /\ rootFret > 0)
              THEN openName
              ELSE barreName \o FretLabel(rootFret) \o ")",
     frets |-> frets,
     baseFret |-> baseFretOf(frets)]

\* The voicing pushed for an inversion, or nothing when the shape is null.
inversionVoicing(invFrets, bassNoteName, suffix) ==
    IF invFrets # null
    THEN <<[name |-> "/" \o bassNoteName \o suffix,
            frets |-> invFrets,
            baseFret |-> baseFretOf(invFrets)]>>
    ELSE <<>>

\* The inversions with the second inversion tried for minor chords too.
inversionPlanSecondForMinor(q, thirdNote, fifthNote) ==
    (IF q = "" \/ q = "m"
     THEN <<<<IF q = "m" THEN "Min_3_E" ELSE "Maj_3_E", thirdNote, "E", " (Bass on E)">>,
            <<IF q = "m" THEN "Min_3_A" ELSE "Maj_3_A", thirdNote, "A", " (Bass on A)">>,
            <<"Maj_5_E", fifthNote, "E", " (Bass on E)">>>>
     ELSE <<>>)

\* The inversions buildChord tries for quality q, in order:
\* <<shape name, bass note, string, name suffix>>.
inversionPlan(q, thirdNote, fifthNote) ==
    (IF q = "" \/ q = "m"
     THEN <<<<IF q = "m" THEN "Min_3_E" ELSE "Maj_3_E", thirdNote, "E", " (Bass on E)">>,
            <<IF q = "m" THEN "Min_3_A" ELSE "Maj_3_A", thirdNote, "A", " (Bass on A)">>>>
     ELSE <<>>)
    \o (IF q = "" THEN <<<<"Maj_5_E", fifthNote, "E", " (Bass on E)">>>> ELSE <<>>)

RECURSIVE inversionVoicings(_)
inversionVoicings(plan) ==
    IF plan = <<>> THEN <<>>
    ELSE inversionVoicing(
             createInversionVoicing(INVERSION_SHAPES[Head(plan)[1]],
                                    fretOn(Head(plan)[3], Head(plan)[2])),
             Head(plan)[2], Head(plan)[4])
         \o inversionVoicings(Tail(plan))

\* buildChord without the fallback of shapeKey: a quality that has no shape
\* template gets no E-shape and no A-shape voicing.
voicingsOfNoFallback(q, n, thirdNote, fifthNote) ==
    (IF q \in DOMAIN CHORD_SHAPES
     THEN <<shapeVoicing(createVoicingFromShape(CHORD_SHAPES[q].eShape,
                                                fretOn("E", n)),
                         fretOn("E", n), "Open / Bottom", "Root on E (Fret "),
            shapeVoicing(createVoicingFromShape(CHORD_SHAPES[q].aShape,
                                                fretOn("A", n)),
                         fretOn("A", n), "Open A-Style", "Root on A (Fret ")>>
     ELSE <<>>)
    \o inversionVoicings(inversionPlan(q, thirdNote, fifthNote))

\* The voicings array buildChord fills.
voicingsOf(q, n, thirdNote, fifthNote) ==
    <<shapeVoicing(createVoicingFromShape(shapeTemplateOf(shapeKeyOf(q)).eShape,
                                          fretOn("E", n)),
                   fretOn("E", n), "Open / Bottom", "Root on E (Fret "),
      shapeVoicing(createVoicingFromShape(shapeTemplateOf(shapeKeyOf(q)).aShape,
                                          fretOn("A", n)),
                   fretOn("A", n), "Open A-Style", "Root on A (Fret ")>>
    \o inversionVoicings(inversionPlan(q, thirdNote, fifthNote))

\* buildChord is a closure of one iteration of generateKeyChords: i, thirdNote
\* and fifthNote are the variables it captures.
buildChord(q, n, r, f, cat, customId, i, thirdNote, fifthNote) ==
    [id |-> n \o q \o "-" \o ToString(i) \o "-" \o customId,
     root |-> n,
     quality |-> q,
     name |-> n \o q,
     roman |-> r,
     function |-> f,
     notes |-> <<n, thirdNote, fifthNote>>,
     voicings |-> voicingsOf(q, n, thirdNote, fifthNote),
     activeVoicingIdx |-> 0,
     scaleDegree |-> i + 1,
     isDiatonic |-> TRUE,
     category |-> cat]

\* The scale tones without `% 12`: ALL_NOTES[k] is undefined for k > 11.
scaleNotesOfNoWrap(rootName, scaleName) ==
    [k \in 1..Len(SCALE_PATTERNS[scaleName]) |->
        IF IndexOf(ALL_NOTES, rootName) + SCALE_PATTERNS[scaleName][k] > 11
        THEN "undefined"
        ELSE At(ALL_NOTES,
                IndexOf(ALL_NOTES, rootName) + SCALE_PATTERNS[scaleName][k])]

\* `pattern.map(interval => ALL_NOTES[(rootIdx + interval) % 12])`
scaleNotesOf(rootName, scaleName) ==
    [k \in 1..Len(SCALE_PATTERNS[scaleName]) |->
        At(ALL_NOTES,
           (IndexOf(ALL_NOTES, rootName) + SCALE_PATTERNS[scaleName][k]) % 12)]

\* `style === 'Blues' && (i === 0 || i === 3 || i === 4)`
isBluesDominant(styleName, i) == styleName = "Blues" /\ (i = 0 \/ i = 3 \/ i = 4)

\* thirdNote, fifthNote, seventhNote of iteration i, after the Blues override.
thirdNoteOf(scaleNotes, styleName, i) ==
    IF isBluesDominant(styleName, i)
    THEN At(ALL_NOTES, (IndexOf(ALL_NOTES, At(scaleNotes, i)) + 4) % 12)
    ELSE At(scaleNotes, (i + 2) % 7)

fifthNoteOf(scaleNotes, i) == At(scaleNotes, (i + 4) % 7)

seventhNoteOf(scaleNotes, styleName, i) ==
    IF isBluesDominant(styleName, i)
    THEN At(ALL_NOTES, (IndexOf(ALL_NOTES, At(scaleNotes, i)) + 10) % 12)
    ELSE At(scaleNotes, (i + 6) % 7)

\* `(ALL_NOTES.indexOf(note) - chordRootVal + 12) % 12`
intervalAbove(rootNote, note) ==
    (IndexOf(ALL_NOTES, note) - IndexOf(ALL_NOTES, rootNote) + 12) % 12

thirdIntervalOf(scaleNotes, styleName, i) ==
    intervalAbove(At(scaleNotes, i), thirdNoteOf(scaleNotes, styleName, i))

\* The quality of the chord of iteration i.
qualityOf(scaleNotes, styleName, i) ==
    getQualityFromIntervals(
        thirdIntervalOf(scaleNotes, styleName, i),
        intervalAbove(At(scaleNotes, i), fifthNoteOf(scaleNotes, i)),
        IF styleName = "Jazz" \/ styleName = "Blues"
        THEN <<intervalAbove(At(scaleNotes, i),
                             seventhNoteOf(scaleNotes, styleName, i))>>
        ELSE null)

\* "Determine Function": `let func = 'Adventure'` and the five conditional
\* assignments that follow it, in order.
funcByDegree(i) ==
    LET func0 == "Adventure"
        func1 == IF i = 0 THEN "Home" ELSE func0
        func2 == IF i = 4 THEN "Tension" ELSE func1
        func3 == IF i = 6 THEN "Tension" ELSE func2
        func4 == IF i = 2 \/ i = 5 THEN "Home" ELSE func3
    IN IF i = 1 \/ i = 3 THEN "Adventure" ELSE func4

\* The Blues / Mixolydian block also treating the flat seventh degree as a
\* subdominant.
funcOfFlatSeven(scaleName, styleName, i) ==
    IF (styleName = "Blues" \/ scaleName = "Mixolydian") /\ i = 6
    THEN "Adventure"
    ELSE funcByDegree(i)

\* func after the Blues / Mixolydian block that follows.
funcOf(scaleName, styleName, i) ==
    LET func == funcByDegree(i)
        func1 == IF i = 0 THEN "Home" ELSE func
        func2 == IF i = 3 THEN "Adventure" ELSE func1
        func3 == IF i = 4 THEN "Tension" ELSE func2
    IN IF styleName = "Blues" \/ scaleName = "Mixolydian" THEN func3 ELSE func

\* The steps that build `roman`, one operator per statement.
romanCase(i, thirdInterval) ==
    IF thirdInterval = 4 THEN ToUpperCase(At(ROMAN_NUMERALS, i))
    ELSE At(ROMAN_NUMERALS, i)

romanSeven(r, quality) == IF Includes(quality, "7") THEN r \o "7" ELSE r

romanMaj7(r, quality) == IF quality = "maj7" THEN Replace(r, "7", "Maj7") ELSE r

romanHalfDim(r, quality) == IF quality = "m7b5" THEN r \o "ø" ELSE r

romanDim7(r, quality) == IF quality = "dim7" THEN r \o "°7" ELSE r

romanOf(i, thirdInterval, quality) ==
    romanDim7(romanHalfDim(romanMaj7(romanSeven(romanCase(i, thirdInterval),
                                                quality),
                                     quality),
                           quality),
              quality)

\* The variations with add9 emitted in every style.
buildPlanAdd9Always(styleName, quality, roman, func) ==
    <<<<quality, roman, func, "Team", "">>>>
    \o (IF quality = "" \/ quality = "7"
        THEN <<<<"sus4", roman \o "sus4", "Spice", "Variation", "sus4">>,
               <<"sus2", roman \o "sus2", "Spice", "Variation", "sus2">>,
               <<"add9", roman \o "add9", "Spice", "Variation", "add9">>>>
            \o (IF quality = ""
                THEN <<<<"6", roman \o "6", "Spice", "Variation", "6">>>>
                ELSE <<>>)
        ELSE <<>>)
    \o (IF quality = "7"
        THEN <<<<"7sus4", roman \o "7sus", "Tension", "Variation", "7sus4">>>>
        ELSE <<>>)

\* The buildChord calls of one iteration, in order:
\* <<q, r, f, cat, customId>>.
buildPlan(styleName, quality, roman, func) ==
    <<<<quality, roman, func, "Team", "">>>>
    \o (IF quality = "" \/ quality = "7"
        THEN <<<<"sus4", roman \o "sus4", "Spice", "Variation", "sus4">>,
               <<"sus2", roman \o "sus2", "Spice", "Variation", "sus2">>>>
            \o (IF styleName = "Pop"
                THEN <<<<"add9", roman \o "add9", "Spice", "Variation", "add9">>>>
                ELSE <<>>)
            \o (IF quality = ""
                THEN <<<<"6", roman \o "6", "Spice", "Variation", "6">>>>
                ELSE <<>>)
        ELSE <<>>)
    \o (IF quality = "7"
        THEN <<<<"7sus4", roman \o "7sus", "Tension", "Variation", "7sus4">>>>
        ELSE <<>>)

buildAll(plan, note, i, thirdNote, fifthNote) ==
    [k \in 1..Len(plan) |->
        buildChord(plan[k][1], note, plan[k][2], plan[k][3], plan[k][4],
                   plan[k][5], i, thirdNote, fifthNote)]

\* One iteration of `scaleNotes.forEach((note, i) => ...)`: the chords it
\* pushes onto allChords, in order.
degreeChordsOf(scaleNotes, scaleName, styleName, i) ==
    buildAll(buildPlan(styleName,
                       qualityOf(scaleNotes, styleName, i),
                       romanOf(i, thirdIntervalOf(scaleNotes, styleName, i),
                               qualityOf(scaleNotes, styleName, i)),
                       funcOf(scaleName, styleName, i)),
             At(scaleNotes, i), i,
             thirdNoteOf(scaleNotes, styleName, i),
             fifthNoteOf(scaleNotes, i))

degreeChords(rootName, scaleName, styleName, i) ==
    degreeChordsOf(scaleNotesOf(rootName, scaleName), scaleName, styleName, i)

\* The chord addWildcard pushes for the wildcard rooted at pitch class wIdx.
\* A wildcard given the function of a dominant instead of 'Stranger'.
wildcardChordAsTension(wIdx, wFrets, quality, roman, label) ==
    [id |-> "wild-" \o At(ALL_NOTES, wIdx) \o quality,
     root |-> At(ALL_NOTES, wIdx),
     quality |-> quality,
     name |-> At(ALL_NOTES, wIdx) \o quality,
     roman |-> roman,
     function |-> "Tension",
     notes |-> <<At(ALL_NOTES, wIdx), "?", "?">>,
     voicings |-> <<[name |-> label, frets |-> wFrets,
                     baseFret |-> MathMin(Played(wFrets))]>>,
     activeVoicingIdx |-> 0,
     scaleDegree |-> 0,
     isDiatonic |-> FALSE,
     category |-> "Wildcard"]

wildcardChord(wIdx, wFrets, quality, roman, label) ==
    [id |-> "wild-" \o At(ALL_NOTES, wIdx) \o quality,
     root |-> At(ALL_NOTES, wIdx),
     quality |-> quality,
     name |-> At(ALL_NOTES, wIdx) \o quality,
     roman |-> roman,
     function |-> "Stranger",
     notes |-> <<At(ALL_NOTES, wIdx), "?", "?">>,
     voicings |-> <<[name |-> label, frets |-> wFrets,
                     baseFret |-> MathMin(Played(wFrets))]>>,
     activeVoicingIdx |-> 0,
     scaleDegree |-> 0,
     isDiatonic |-> FALSE,
     category |-> "Wildcard"]

wildcardIdx(rootName, degreeOffset) ==
    (IndexOf(ALL_NOTES, rootName) + degreeOffset) % 12

addWildcard(rootName, degreeOffset, quality, roman, label) ==
    wildcardChord(
        wildcardIdx(rootName, degreeOffset),
        createVoicingFromShape(
            shapeTemplateOf(quality).eShape,
            (wildcardIdx(rootName, degreeOffset) - IndexOf(ALL_NOTES, "E") + 12) % 12),
        quality, roman, label)

\* The addWildcard calls of generateKeyChords, in order.
wildcardPlan(scaleName) ==
    IF scaleName = "Major" \/ scaleName = "Mixolydian"
    THEN <<<<10, "", "bVII", "Mixolydian Borrow">>,
           <<3, "", "bIII", "Chromatic Mediant">>,
           <<5, "m", "iv", "Minor Plagal">>,
           <<8, "", "bVI", "Epic Lift">>>>
    ELSE <<<<7, "", "V", "Major V (Harmonic)">>,
           <<5, "", "IV", "Dorian IV">>,
           <<1, "", "bII", "Neapolitan">>>>

wildcards(rootName, plan) ==
    [k \in 1..Len(plan) |->
        addWildcard(rootName, plan[k][1], plan[k][2], plan[k][3], plan[k][4])]

\* The chords pushed by iterations from..6 of the forEach.
RECURSIVE diatonic(_, _, _, _)
diatonic(rootName, scaleName, styleName, from) ==
    IF from > 6 THEN <<>>
    ELSE degreeChords(rootName, scaleName, styleName, from)
         \o diatonic(rootName, scaleName, styleName, from + 1)

generateKeyChords(rootName, scaleName, styleName) ==
    diatonic(rootName, scaleName, styleName, 0)
    \o wildcards(rootName, wildcardPlan(scaleName))

\* The classifier without the Adventure -> Tension rule.
getTransitionInfoNoPush(prev, curr) ==
    IF prev.function = "Tension" /\ curr.function = "Home"
    THEN [type |-> "resolution", label |-> "Resolve"]
    ELSE IF prev.function = "Home" /\ curr.function = "Tension"
    THEN [type |-> "tension", label |-> "Build"]
    ELSE IF curr.function = "Stranger" \/ curr.category = "Wildcard"
    THEN [type |-> "adventure", label |-> "Surprise"]
    ELSE [type |-> "neutral", label |-> "Flow"]

getTransitionInfo(prev, curr) ==
    IF prev.function = "Tension" /\ curr.function = "Home"
    THEN [type |-> "resolution", label |-> "Resolve"]
    ELSE IF prev.function = "Home" /\ curr.function = "Tension"
    THEN [type |-> "tension", label |-> "Build"]
    ELSE IF prev.function = "Adventure" /\ curr.function = "Tension"
    THEN [type |-> "tension", label |-> "Push"]
    ELSE IF curr.function = "Stranger" \/ curr.category = "Wildcard"
    THEN [type |-> "adventure", label |-> "Surprise"]
    ELSE [type |-> "neutral", label |-> "Flow"]

\* ------------------------------------------------------------ App component

\* The chord object a reference points to.
Deref(ref) == IF ref[1] = "cat" THEN allChords[ref[2]] ELSE heap[ref[2]]

\* The addresses of the chord objects reachable from the component's state.
Live(prog, sel) ==
    {prog[k][2] : k \in {j \in 1..Len(prog) : prog[j][1] = "obj"}}
    \cup (IF sel # null /\ sel[1] = "obj" THEN {sel[2]} ELSE {})

\* Garbage collection: objects no reference reaches are dropped.
Collect(h, prog, sel) == [a \in (DOMAIN h) \cap Live(prog, sel) |-> h[a]]

\* The address of a new object: the lowest one not in use.
NewAddr == CHOOSE a \in 1..(Cardinality(DOMAIN heap) + 1) : a \notin DOMAIN heap

\* generateKeyChords tabulated over the keys <<root, scale, style>> the
\* selectors offer, so that each catalog is computed once.
RECURSIVE tabulate(_)
tabulate(keys) ==
    IF keys = {} THEN <<>>
    ELSE LET key == CHOOSE key \in keys : TRUE
         IN (key :> generateKeyChords(key[1], key[2], key[3]))
            @@ tabulate(keys \ {key})

RECURSIVE tabulateFrom(_)
tabulateFrom(k) ==
    IF k > Len(ALL_NOTES) THEN <<>>
    ELSE tabulate({ALL_NOTES[k]}
                  \X {SCALE_NAMES[j] : j \in 1..Len(SCALE_NAMES)}
                  \X {MUSIC_STYLES[j] : j \in 1..Len(MUSIC_STYLES)})
         @@ tabulateFrom(k + 1)

catalogOf == tabulateFrom(1)

\* useMemo(() => generateKeyChords(root, scaleType, style), [root, scaleType, style]):
\* the catalog is rebuilt when a dependency changed, and kept otherwise.
memoAllChords(newRoot, newScale, newStyle) ==
    IF newRoot = root /\ newScale = scaleType /\ newStyle = style
    THEN allChords
    ELSE catalogOf[<<newRoot, newScale, newStyle>>]

\* The catalog positions of the palette's three sections (teamChords,
\* variationChords, wildcardChords), each in catalog order.
section(cat) ==
    SelectSeq([k \in 1..Len(allChords) |-> k],
              LAMBDA k : allChords[k].category = cat)

\* The palette buttons the model clicks: the first MaxButtons of each section.
Buttons ==
    UNION {{section(cat)[j] : j \in 1..(IF Len(section(cat)) < MaxButtons
                                        THEN Len(section(cat)) ELSE MaxButtons)} :
           cat \in {"Team", "Variation", "Wildcard"}}

Init ==
    /\ root = "C"
    /\ scaleType = "Major"
    /\ style = "Pop"
    /\ allChords = catalogOf[<<"C", "Major", "Pop">>]
    /\ heap = <<>>
    /\ progression = <<>>
    /\ selectedChord = null
    /\ now = 0
    /\ call = null

\* Time passes between two events: Date.now() grows.
Tick ==
    /\ now < MaxClock
    /\ now' = now + 1
    /\ UNCHANGED <<root, scaleType, style, allChords, heap, progression,
                   selectedChord, call>>

\* addChord without the clone: the progression receives the catalog chord
\* itself.
addChordNoClone(k) ==
    /\ Len(progression) < MaxProg
    /\ progression' = Append(progression, <<"cat", k>>)
    /\ selectedChord' = <<"cat", k>>
    /\ heap' = Collect(heap, progression', selectedChord')
    /\ UNCHANGED <<root, scaleType, style, allChords, now, call>>

\* A palette button: addChord(chord) with the k-th catalog chord.
addChord(k) ==
    LET chordTemplate == allChords[k]
        newChord == [chordTemplate EXCEPT
                        !.id = chordTemplate.id \o "-" \o ToString(now)]
        ref == <<"obj", NewAddr>>
    IN /\ Len(progression) < MaxProg
       /\ progression' = Append(progression, ref)
       /\ selectedChord' = ref
       /\ heap' = Collect([a \in DOMAIN heap \cup {ref[2]} |->
                              IF a = ref[2] THEN newChord ELSE heap[a]],
                          progression', selectedChord')
       /\ UNCHANGED <<root, scaleType, style, allChords, now, call>>

\* progression.findIndex(c => c.id === selectedChord.id), 0-based, -1 if none.
findIndexOfSelected ==
    IndexOf([k \in 1..Len(progression) |->
                Deref(progression[k]).id = Deref(selectedChord).id], TRUE)

\* JavaScript's %: the remainder takes the sign of the dividend, and x % 0 is
\* NaN.
NaN == "NaN"

Rem(a, b) ==
    IF b = 0 THEN NaN
    ELSE IF a >= 0 THEN a % b
    ELSE 0 - ((0 - a) % b)

\* A voicing arrow that steps without wrapping around.
newVoicingIdxNoWrap(currentIdx, delta, len) == currentIdx + delta

\* The step without `+ len`: JavaScript's % leaves 0 - 1 negative.
newVoicingIdxNoLen(currentIdx, delta, len) == Rem(currentIdx + delta, len)

\* `(currentIdx + delta + len) % len`
newVoicingIdxOf(currentIdx, delta, len) == Rem(currentIdx + delta + len, len)

\* The voicing arrows: changeVoicing(delta).  The assignment
\* `newProg[idx].activeVoicingIdx = ...` writes into the object that the
\* progression's element refers to.
changeVoicing(delta) ==
    IF selectedChord = null \/ findIndexOfSelected = -1
    THEN UNCHANGED vars
    ELSE LET idx == findIndexOfSelected
             newProg == progression
             target == At(newProg, idx)
             currentIdx == Deref(target).activeVoicingIdx
             len == Len(Deref(target).voicings)
             newVoicingIdx == newVoicingIdxOf(currentIdx, delta, len)
         IN /\ progression' = newProg
            /\ selectedChord' = target
            /\ IF target[1] = "cat"
               THEN /\ allChords' = [allChords EXCEPT
                                        ![target[2]].activeVoicingIdx = newVoicingIdx]
                    /\ heap' = Collect(heap, progression', selectedChord')
               ELSE /\ heap' = Collect([heap EXCEPT
                                           ![target[2]].activeVoicingIdx = newVoicingIdx],
                                       progression', selectedChord')
                    /\ UNCHANGED allChords
            /\ UNCHANGED <<root, scaleType, style, now, call>>

\* A click on the idx-th card of the timeline: setSelectedChord(chord).
selectChord(idx) ==
    /\ selectedChord' = At(progression, idx)
    /\ heap' = Collect(heap, progression, selectedChord')
    /\ UNCHANGED <<root, scaleType, style, allChords, progression, now, call>>

\* The X button of the idx-th card: newP.splice(idx, 1).
removeChord(idx) ==
    /\ progression' = SubSeq(progression, 1, idx) \o
                      SubSeq(progression, idx + 2, Len(progression))
    /\ heap' = Collect(heap, progression', selectedChord)
    /\ UNCHANGED <<root, scaleType, style, allChords, selectedChord, now, call>>

\* The Clear button: setProgression([]).
clearProgression ==
    /\ progression' = <<>>
    /\ heap' = Collect(heap, progression', selectedChord)
    /\ UNCHANGED <<root, scaleType, style, allChords, selectedChord, now, call>>

\* The style buttons: setStyle(s.id); setProgression([]).
\* The style button without `setProgression([])`.
setStyleKeepsProgression(s) ==
    /\ style' = s
    /\ allChords' = memoAllChords(root, scaleType, s)
    /\ UNCHANGED <<root, scaleType, progression, heap, selectedChord, now, call>>

setStyle(s) ==
    /\ style' = s
    /\ progression' = <<>>
    /\ allChords' = memoAllChords(root, scaleType, s)
    /\ heap' = Collect(heap, progression', selectedChord)
    /\ UNCHANGED <<root, scaleType, selectedChord, now, call>>

\* The root selector: setRoot(e.target.value); setProgression([]).  onChange
\* fires when the option chosen differs from the one shown.
setRoot(r) ==
    /\ r # root
    /\ root' = r
    /\ progression' = <<>>
    /\ allChords' = memoAllChords(r, scaleType, style)
    /\ heap' = Collect(heap, progression', selectedChord)
    /\ UNCHANGED <<scaleType, style, selectedChord, now, call>>

\* The scale selector: setScaleType(e.target.value); setProgression([]).
setScaleType(s) ==
    /\ s # scaleType
    /\ scaleType' = s
    /\ progression' = <<>>
    /\ allChords' = memoAllChords(root, s, style)
    /\ heap' = Collect(heap, progression', selectedChord)
    /\ UNCHANGED <<root, style, selectedChord, now, call>>

\* The options of the three selectors the model chooses among.
RootOptions == {ALL_NOTES[k] : k \in 1..(MaxSel + 1)}

ScaleOptions == {SCALE_NAMES[k] : k \in 1..(MaxSel + 1)}

StyleOptions == {MUSIC_STYLES[k] : k \in 1..(MaxSel + 1)}

Next ==
    \/ Tick
    \/ \E k \in Buttons : addChord(k)
    \/ \E delta \in {1, -1} : changeVoicing(delta)
    \/ \E idx \in 0..(Len(progression) - 1) : selectChord(idx)
    \/ \E idx \in 0..(Len(progression) - 1) : removeChord(idx)
    \/ clearProgression
    \/ \E s \in StyleOptions : setStyle(s)
    \/ \E r \in RootOptions : setRoot(r)
    \/ \E s \in ScaleOptions : setScaleType(s)

Spec == Init /\ [][Next]_vars

\* ------------------------------------------------- the engine, call by call
\* The pure functions of the engine, each applied to every input the
\* selectors can give it.  `call` holds one call: its function, its
\* arguments, its position ("call" before the body ran, "return" after) and
\* the value returned.

\* The comparator of `notesToPlay.sort(...)`: `octave * 12 + ALL_NOTES.indexOf(note)`.
sortKey(n) == n.octave * 12 + IndexOf(ALL_NOTES, n.note)

\* Array.prototype.sort is stable: an entry goes behind the entries that
\* compare equal to it.
RECURSIVE insertSorted(_, _)
insertSorted(sorted, n) ==
    IF sorted = <<>> THEN <<n>>
    ELSE IF sortKey(Head(sorted)) <= sortKey(n)
         THEN <<Head(sorted)>> \o insertSorted(Tail(sorted), n)
         ELSE <<n>> \o sorted

RECURSIVE sortByPitch(_)
sortByPitch(notes) ==
    IF notes = <<>> THEN <<>>
    ELSE insertSorted(sortByPitch(SubSeq(notes, 1, Len(notes) - 1)),
                      notes[Len(notes)])

\* `voicing.frets.forEach((fret, stringIdx) => { if (fret !== -1) ... push })`
RECURSIVE notesToPlayFrom(_, _)
notesToPlayFrom(frets, stringIdx) ==
    IF stringIdx >= Len(frets) THEN <<>>
    ELSE (IF At(frets, stringIdx) # -1
          THEN <<getNoteAtFret(stringIdx, At(frets, stringIdx))>>
          ELSE <<>>)
         \o notesToPlayFrom(frets, stringIdx + 1)

\* playSound(chord), as the sequence of argument lists of the strumChord calls
\* it makes: none when `chord.voicings[chord.activeVoicingIdx]` is undefined,
\* and one otherwise.
playSound(chord) ==
    IF chord.activeVoicingIdx \notin 0..(Len(chord.voicings) - 1)
    THEN <<>>
    ELSE <<sortByPitch(
             notesToPlayFrom(At(chord.voicings, chord.activeVoicingIdx).frets, 0))>>


\* The component's state on mount.
Mounted ==
    /\ root = "C"
    /\ scaleType = "Major"
    /\ style = "Pop"
    /\ allChords = catalogOf[<<"C", "Major", "Pop">>]
    /\ heap = <<>>
    /\ progression = <<>>
    /\ selectedChord = null
    /\ now = 0

\* Every <<root, scale, style>> the three selectors offer.
Keys ==
    {ALL_NOTES[k] : k \in 1..Len(ALL_NOTES)}
    \X {SCALE_NAMES[k] : k \in 1..Len(SCALE_NAMES)}
    \X {MUSIC_STYLES[k] : k \in 1..Len(MUSIC_STYLES)}

\* The intervals `(x - chordRootVal + 12) % 12` can take.
Intervals == 0..11

Entered(fn, args) == [fn |-> fn, args |-> args, pc |-> "call", ret |-> null]

\* Scale names a caller can pass that are not keys of SCALE_PATTERNS: other
\* scales, another spelling, the empty string, and a name the object inherits
\* from Object.prototype.
UnregisteredScales == {"Blues", "major", "", "constructor"}

UnregisteredKeys ==
    {ALL_NOTES[k] : k \in 1..Len(ALL_NOTES)}
    \X UnregisteredScales
    \X {MUSIC_STYLES[k] : k \in 1..Len(MUSIC_STYLES)}

InitEngine ==
    /\ Mounted
    /\ \/ \E key \in Keys \cup UnregisteredKeys :
              call = Entered("generateKeyChords", key)
       \/ \E key \in Keys \cup UnregisteredKeys :
              call = Entered("scaleNotes", <<key[1], key[2]>>)
       \/ \E third \in Intervals, fifth \in Intervals,
             seventh \in {null} \cup {<<v>> : v \in Intervals} :
              call = Entered("getQualityFromIntervals", <<third, fifth, seventh>>)
       \/ \E key \in SHAPE_KEYS, n \in 1..Len(ALL_NOTES) :
              \/ call = Entered("createVoicingFromShape",
                                <<CHORD_SHAPES[key].eShape,
                                  fretOn("E", ALL_NOTES[n])>>)
              \/ call = Entered("createVoicingFromShape",
                                <<CHORD_SHAPES[key].aShape,
                                  fretOn("A", ALL_NOTES[n])>>)

\* How an invocation ends. `SCALE_PATTERNS[scaleType]` is undefined for a name
\* that is not a key (a function or object without `map` for an inherited
\* name), and `.map(...)` on it throws a TypeError before anything is built.
\* The mutant falls back to the Major pattern instead.
invokeGenerateKeyChordsMajorDefault(rootName, scaleName, styleName) ==
    [pc |-> "return",
     ret |-> generateKeyChords(rootName,
                               IF scaleName \in DOMAIN SCALE_PATTERNS
                               THEN scaleName ELSE "Major",
                               styleName)]

invokeGenerateKeyChords(rootName, scaleName, styleName) ==
    IF scaleName \in DOMAIN SCALE_PATTERNS
    THEN [pc |-> "return",
          ret |-> generateKeyChords(rootName, scaleName, styleName)]
    ELSE [pc |-> "throw", ret |-> "TypeError"]

\* The scaleNotes memo of the component: the same lookup and map.
invokeScaleNotes(rootName, scaleName) ==
    IF scaleName \in DOMAIN SCALE_PATTERNS
    THEN [pc |-> "return", ret |-> scaleNotesOf(rootName, scaleName)]
    ELSE [pc |-> "throw", ret |-> "TypeError"]

callGenerateKeyChords ==
    /\ call.pc = "call"
    /\ call.fn = "generateKeyChords"
    /\ call' = [call EXCEPT
                   !.pc = invokeGenerateKeyChords(call.args[1], call.args[2],
                                                  call.args[3]).pc,
                   !.ret = invokeGenerateKeyChords(call.args[1], call.args[2],
                                                   call.args[3]).ret]
    /\ UNCHANGED appVars

\* The scale tones, as generateKeyChords and the scaleNotes memo compute them.
callScaleNotes ==
    /\ call.pc = "call"
    /\ call.fn = "scaleNotes"
    /\ call' = [call EXCEPT
                   !.pc = invokeScaleNotes(call.args[1], call.args[2]).pc,
                   !.ret = invokeScaleNotes(call.args[1], call.args[2]).ret]
    /\ UNCHANGED appVars

callGetQualityFromIntervals ==
    /\ call.pc = "call"
    /\ call.fn = "getQualityFromIntervals"
    /\ call' = [call EXCEPT
                   !.pc = "return",
                   !.ret = getQualityFromIntervals(call.args[1], call.args[2],
                                                   call.args[3])]
    /\ UNCHANGED appVars

\* The shift of an E-shape or A-shape template to the chord's root fret.
callCreateVoicingFromShape ==
    /\ call.pc = "call"
    /\ call.fn = "createVoicingFromShape"
    /\ call' = [call EXCEPT
                   !.pc = "return",
                   !.ret = createVoicingFromShape(call.args[1], call.args[2])]
    /\ UNCHANGED appVars

NextEngine ==
    \/ callGenerateKeyChords
    \/ callScaleNotes
    \/ callGetQualityFromIntervals
    \/ callCreateVoicingFromShape

SpecEngine == InitEngine /\ [][NextEngine]_vars

\* getTransitionInfo applied to every ordered pair of chords of one catalog
\* (the progression holds chords of one key: a key change empties it).
InitTransition ==
    /\ Mounted
    /\ \E key \in Keys :
           \E i \in 1..Len(catalogOf[key]), j \in 1..Len(catalogOf[key]) :
               call = Entered("getTransitionInfo",
                              <<catalogOf[key][i], catalogOf[key][j]>>)

callGetTransitionInfo ==
    /\ call.pc = "call"
    /\ call.fn = "getTransitionInfo"
    /\ call' = [call EXCEPT
                   !.pc = "return",
                   !.ret = getTransitionInfo(call.args[1], call.args[2])]
    /\ UNCHANGED appVars

NextTransition == callGetTransitionInfo

SpecTransition == InitTransition /\ [][NextTransition]_vars

\* The chords of all catalogs, each standing on any of its voicings: the
\* chords playSound is called with (C1).
standingOn(chord) ==
    {[chord EXCEPT !.activeVoicingIdx = v] : v \in 0..(Len(chord.voicings) - 1)}

SoundedChords ==
    UNION {UNION {standingOn(catalogOf[key][k]) : k \in 1..Len(catalogOf[key])} :
           key \in Keys}

\* The frets of the voicings of all catalogs.
Frets == -1..15

\* playSound applied to every such chord, and getNoteAtFret to every string
\* and fret.
InitSound ==
    /\ Mounted
    /\ \/ \E chord \in SoundedChords : call = Entered("playSound", <<chord>>)
       \/ \E stringIdx \in 0..(Len(GUITAR_TUNING) - 1), fret \in Frets :
              call = Entered("getNoteAtFret", <<stringIdx, fret>>)

callPlaySound ==
    /\ call.pc = "call"
    /\ call.fn = "playSound"
    /\ call' = [call EXCEPT !.pc = "return", !.ret = playSound(call.args[1])]
    /\ UNCHANGED appVars

callGetNoteAtFret ==
    /\ call.pc = "call"
    /\ call.fn = "getNoteAtFret"
    /\ call' = [call EXCEPT
                   !.pc = "return",
                   !.ret = getNoteAtFret(call.args[1], call.args[2])]
    /\ UNCHANGED appVars

NextSound ==
    \/ callPlaySound
    \/ callGetNoteAtFret

SpecSound == InitSound /\ [][NextSound]_vars

\* ------------------------------------------------------------------ claims

\* The chord objects the progression refers to, in order.
progressionChords == [k \in 1..Len(progression) |-> Deref(progression[k])]

\* C1: after any sequence of addChord, changeVoicing(+1 or -1), remove, clear
\* and root/scale/style changes, every chord of the catalog and every chord
\* of the progression has 0 <= activeVoicingIdx < voicings.length.
C1_ActiveVoicingIdxValid ==
    /\ \A k \in 1..Len(allChords) :
           /\ 0 <= allChords[k].activeVoicingIdx
           /\ allChords[k].activeVoicingIdx < Len(allChords[k].voicings)
    /\ \A k \in 1..Len(progressionChords) :
           /\ 0 <= progressionChords[k].activeVoicingIdx
           /\ progressionChords[k].activeVoicingIdx
                  < Len(progressionChords[k].voicings)

\* C1's case: two chords were added, the arrows moved the first one to its
\* last voicing (one step back from 0, around the end) and the second one
\* forward, in a key other than the one the component mounts with.
C1_Witness ==
    /\ Len(progression) = 2
    /\ Len(progressionChords[1].voicings) > 2
    /\ progressionChords[1].activeVoicingIdx
           = Len(progressionChords[1].voicings) - 1
    /\ progressionChords[2].activeVoicingIdx = 1
    /\ root # "C"

\* The catalog a generateKeyChords call returned.
Returned(fn) == call.fn = fn /\ call.pc = "return"

\* C2: for every root, scale pattern and style, every chord generateKeyChords
\* returns (Team, Variation and Wildcard alike) has at least one voicing,
\* also when its quality has no shape template of its own.
C2_VoicingsNonEmpty ==
    Returned("generateKeyChords") =>
        \A k \in 1..Len(call.ret) : Len(call.ret[k].voicings) >= 1

\* C2's case: a returned catalog holding a Team chord whose quality (mMaj7)
\* has no template in CHORD_SHAPES, a Variation chord and a Wildcard chord.
C2_Witness ==
    /\ Returned("generateKeyChords")
    /\ \E k \in 1..Len(call.ret) :
           /\ call.ret[k].quality \notin DOMAIN CHORD_SHAPES
           /\ Len(call.ret[k].voicings) = 2
    /\ \E k \in 1..Len(call.ret) : call.ret[k].category = "Variation"
    /\ \E k \in 1..Len(call.ret) : call.ret[k].category = "Wildcard"

\* The pitch classes a voicing sounds through GUITAR_TUNING.
soundedBy(voicing) ==
    {getNoteAtFret(stringIdx, At(voicing.frets, stringIdx)).note :
         stringIdx \in {t \in 0..(Len(voicing.frets) - 1) :
                            At(voicing.frets, t) >= 0}}

\* C3: for every chord of every generated catalog and every voicing of the
\* chord, each string whose fret is >= 0 sounds, through standard tuning, a
\* pitch class that is an element of the chord's notes.
C3_VoicingsSoundChordTones ==
    Returned("generateKeyChords") =>
        \A k \in 1..Len(call.ret) :
            \A v \in 1..Len(call.ret[k].voicings) :
                soundedBy(call.ret[k].voicings[v])
                    \subseteq {call.ret[k].notes[j] :
                                   j \in 1..Len(call.ret[k].notes)}

\* The qualities with a seventh.
SeventhQualities == {"7", "maj7", "m7", "mMaj7", "m7b5", "dim7"}

\* C4: for every generated Team chord, notes[0] is the chord root and notes
\* has 3 elements when the quality is a triad and 4 when it is a seventh
\* chord (Jazz and Blues sevenths carry their seventh tone).
C4_CoreNotesMatchQuality ==
    Returned("generateKeyChords") =>
        \A k \in 1..Len(call.ret) :
            call.ret[k].category = "Team" =>
                /\ At(call.ret[k].notes, 0) = call.ret[k].root
                /\ Len(call.ret[k].notes)
                       = IF call.ret[k].quality \in SeventhQualities
                         THEN 4 ELSE 3

\* C5: for each root and each scale pattern the scale tones are 7 pairwise
\* distinct pitch classes, the first is the root, their distances above the
\* root strictly increase, and their indices in ALL_NOTES drop (wrap around)
\* at most once.
C5_ScaleTones ==
    Returned("scaleNotes") =>
        /\ Len(call.ret) = 7
        /\ \A j \in 1..7 : call.ret[j] \in {ALL_NOTES[n] : n \in 1..12}
        /\ \A i \in 1..7, j \in 1..7 : i # j => call.ret[i] # call.ret[j]
        /\ call.ret[1] = call.args[1]
        /\ \A j \in 1..6 :
               intervalAbove(call.args[1], call.ret[j])
                   < intervalAbove(call.args[1], call.ret[j + 1])
        /\ Cardinality({j \in 1..6 :
                            IndexOf(ALL_NOTES, call.ret[j + 1])
                                < IndexOf(ALL_NOTES, call.ret[j])}) <= 1

\* C5's case: the tones of a scale whose root is not C were computed, and
\* they wrap around past B.
C5_Witness ==
    /\ Returned("scaleNotes")
    /\ call.args = <<"A", "Lydian">>
    /\ call.ret = <<"A", "B", "C#", "D#", "E", "F#", "G#">>

\* C6: in Blues style, for every root and every scale pattern, the Team
\* chords on scale degrees 1, 4 and 5 have quality "7", whatever third, fifth
\* and seventh the scale gives those degrees.
C6_BluesDominantSevenths ==
    (Returned("generateKeyChords") /\ call.args[3] = "Blues") =>
        \A k \in 1..Len(call.ret) :
            (/\ call.ret[k].category = "Team"
             /\ call.ret[k].scaleDegree \in {1, 4, 5}) =>
                call.ret[k].quality = "7"

\* C7: the classifier maps, with a seventh, (4,7,11) to maj7, (4,7,10) to 7,
\* (3,7,10) to m7, (3,7,11) to mMaj7, (3,6,10) to m7b5 and (3,6,9) to dim7;
\* without a seventh, (4,7) to major, (3,7) to minor and (3,6) to diminished.
C7_QualityTable ==
    Returned("getQualityFromIntervals") =>
        LET third == call.args[1]
            fifth == call.args[2]
            seventh == call.args[3]
        IN IF seventh # null
           THEN /\ (third = 4 /\ fifth = 7 /\ seventh = <<11>>) => call.ret = "maj7"
                /\ (third = 4 /\ fifth = 7 /\ seventh = <<10>>) => call.ret = "7"
                /\ (third = 3 /\ fifth = 7 /\ seventh = <<10>>) => call.ret = "m7"
                /\ (third = 3 /\ fifth = 7 /\ seventh = <<11>>) => call.ret = "mMaj7"
                /\ (third = 3 /\ fifth = 6 /\ seventh = <<10>>) => call.ret = "m7b5"
                /\ (third = 3 /\ fifth = 6 /\ seventh = <<9>>) => call.ret = "dim7"
           ELSE /\ (third = 4 /\ fifth = 7) => call.ret = ""
                /\ (third = 3 /\ fifth = 7) => call.ret = "m"
                /\ (third = 3 /\ fifth = 6) => call.ret = "dim"

\* C7's case: the classifier returned for a major triad with a major seventh.
C7_Witness ==
    /\ Returned("getQualityFromIntervals")
    /\ call.args = <<4, 7, <<11>>>>
    /\ call.ret = "maj7"

\* C8: for every root, scale pattern and style, the Team chord on scale
\* degree d has function Home for d in {1,3,6}, Adventure for d in {2,4} and
\* Tension for d in {5,7}.
C8_FunctionByDegree ==
    Returned("generateKeyChords") =>
        \A k \in 1..Len(call.ret) :
            call.ret[k].category = "Team" =>
                call.ret[k].function
                    = CASE call.ret[k].scaleDegree \in {1, 3, 6} -> "Home"
                        [] call.ret[k].scaleDegree \in {2, 4} -> "Adventure"
                        [] call.ret[k].scaleDegree \in {5, 7} -> "Tension"
                        [] OTHER -> "none"

\* C8's case: a Blues catalog of a Mixolydian key was returned, with its seven
\* Team chords, the one on degree 7 a Tension chord.
C8_Witness ==
    /\ Returned("generateKeyChords")
    /\ call.args[2] = "Mixolydian"
    /\ call.args[3] = "Blues"
    /\ {call.ret[k].scaleDegree :
            k \in {j \in 1..Len(call.ret) : call.ret[j].category = "Team"}}
           = 1..7
    /\ \E k \in 1..Len(call.ret) :
           /\ call.ret[k].category = "Team"
           /\ call.ret[k].scaleDegree = 7
           /\ call.ret[k].function = "Tension"

\* The wildcards <<root, quality>> the claim C9 lists for a key: by the third
\* degree of the scale pattern (4 semitones: major family).
listedWildcards(rootName, scaleName) ==
    {<<At(ALL_NOTES, (IndexOf(ALL_NOTES, rootName) + w[1]) % 12), w[2]>> :
         w \in IF At(SCALE_PATTERNS[scaleName], 2) = 4
               THEN {<<10, "">>, <<3, "">>, <<5, "m">>, <<8, "">>}
               ELSE {<<7, "">>, <<5, "">>, <<1, "">>}}

\* C9: the wildcards of a catalog depend only on the mode family and the
\* root: bVII, bIII, iv minor and bVI for a major-family mode (Major, Lydian,
\* Mixolydian), V, IV and bII for every other mode, whatever the style; each
\* wildcard has isDiatonic = false, category Wildcard and function Stranger.
C9_WildcardsByModeFamily ==
    Returned("generateKeyChords") =>
        LET wild == SelectSeq(call.ret, LAMBDA c : c.category = "Wildcard")
        IN /\ {<<wild[k].root, wild[k].quality>> : k \in 1..Len(wild)}
                  = listedWildcards(call.args[1], call.args[2])
           /\ Len(wild) = Cardinality(listedWildcards(call.args[1], call.args[2]))
           /\ \A k \in 1..Len(wild) :
                  ~wild[k].isDiatonic /\ wild[k].function = "Stranger"

\* C10: for every ordered pair of chords the classifier returns one kind:
\* resolution for Tension -> Home; tension for Home -> Tension and for
\* Adventure -> Tension; adventure (Surprise) when the next chord is a
\* Wildcard; neutral in every other case.  A call reads its two arguments
\* only and leaves the component's state as it was.
C10_TransitionTable ==
    Returned("getTransitionInfo") =>
        LET prev == call.args[1]
            next == call.args[2]
        IN /\ call.ret
                  = IF prev.function = "Tension" /\ next.function = "Home"
                    THEN [type |-> "resolution", label |-> "Resolve"]
                    ELSE IF prev.function = "Home" /\ next.function = "Tension"
                    THEN [type |-> "tension", label |-> "Build"]
                    ELSE IF prev.function = "Adventure" /\ next.function = "Tension"
                    THEN [type |-> "tension", label |-> "Push"]
                    ELSE IF next.category = "Wildcard"
                    THEN [type |-> "adventure", label |-> "Surprise"]
                    ELSE [type |-> "neutral", label |-> "Flow"]
           /\ Mounted

\* C10's case: the classifier returned tension (Push) for a Team chord of
\* function Adventure followed by a Variation chord of function Tension.
C10_Witness ==
    /\ Returned("getTransitionInfo")
    /\ call.args[1].function = "Adventure"
    /\ call.args[2].function = "Tension"
    /\ call.args[2].category = "Variation"
    /\ call.ret.type = "tension"

\* C11: after a catalog chord was added to the progression and its copy's
\* active voicing changed any number of times, the catalog chord it came from
\* and every other catalog chord still have activeVoicingIdx 0.
C11_CatalogVoicingUntouched ==
    \A k \in 1..Len(allChords) : allChords[k].activeVoicingIdx = 0

\* C11's case: the progression holds a copy whose active voicing was moved
\* off 0 while the catalog chord it was copied from is in the catalog.
C11_Witness ==
    \E k \in 1..Len(progression), j \in 1..Len(allChords) :
        /\ progressionChords[k].activeVoicingIdx # 0
        /\ \E t \in 0..MaxClock :
               progressionChords[k].id = allChords[j].id \o "-" \o ToString(t)
        /\ allChords[j].activeVoicingIdx = 0

\* The references to chord objects the component holds: the elements of the
\* progression list and the selected chord.
heldRefs ==
    {progression[k] : k \in 1..Len(progression)}
    \cup (IF selectedChord = null THEN {} ELSE {selectedChord})

\* C12: changing the active voicing of a chord of the progression makes a new
\* chord value and never writes to the existing one: a reference held before
\* a step (an element of the previous progression list, the previously
\* selected chord) shows the same activeVoicingIdx after the step.
C12_NoInPlaceMutation ==
    [][\A ref \in heldRefs :
           (ref[1] = "obj" /\ ref[2] \in DOMAIN heap') =>
               heap'[ref[2]].activeVoicingIdx = heap[ref[2]].activeVoicingIdx]_vars

\* C13: every addChord places a copy with a fresh identity: whatever the
\* timing of the adds (the same catalog chord added twice within one tick of
\* Date.now() included), the chords of the progression have pairwise
\* distinct ids.
C13_DistinctIds ==
    \A i \in 1..Len(progression), j \in 1..Len(progression) :
        i # j => progressionChords[i].id # progressionChords[j].id

\* The invocations of generateKeyChords and of the scaleNotes memo with a
\* scale name that is not a key of SCALE_PATTERNS, once they have ended.
UnregisteredCallEnded ==
    /\ call.fn \in {"generateKeyChords", "scaleNotes"}
    /\ call.pc # "call"
    /\ call.args[2] \notin DOMAIN SCALE_PATTERNS

arrowTarget == Deref(At(progression, findIndexOfSelected))

\* A step of the voicing arrow `delta` taken where currentIdx + delta lies
\* outside 0..voicings.length-1.
steppedOutOfRange(delta) ==
    /\ selectedChord # null
    /\ findIndexOfSelected # -1
    /\ arrowTarget.activeVoicingIdx + delta
           \notin 0..(Len(arrowTarget.voicings) - 1)
    /\ changeVoicing(delta)

\* C15 (as stated): setting the active voicing to an index outside
\* 0..voicings.length-1 fails (IndexOutOfRange) and leaves the chord and the
\* progression unchanged.
C15_OutOfRangeRejected ==
    [][\A delta \in {1, -1} :
           steppedOutOfRange(delta) =>
               /\ progression' = progression
               /\ progressionChords' = progressionChords]_vars

\* C15 (amended): the only way to set the active voicing is to step it by one,
\* and a step to an index outside 0..voicings.length-1 does not fail: it wraps
\* around, from the last voicing to index 0 and from index 0 to the last
\* voicing, on the chord the arrows act on, and changes nothing else of that
\* chord or of the progression.
C15_OutOfRangeWraps ==
    [][\A delta \in {1, -1} :
           steppedOutOfRange(delta) =>
               /\ progression' = progression
               /\ \A k \in 1..Len(progression) :
                      progressionChords'[k] =
                          IF k = findIndexOfSelected + 1
                          THEN [arrowTarget EXCEPT
                                   !.activeVoicingIdx =
                                       IF delta = 1 THEN 0
                                       ELSE Len(arrowTarget.voicings) - 1]
                          ELSE progressionChords[k]]_vars

\* The selected chord stands on its last voicing, beyond index 1: the right
\* arrow steps past the end.
C15_Witness ==
    /\ selectedChord # null
    /\ findIndexOfSelected # -1
    /\ Len(arrowTarget.voicings) > 2
    /\ arrowTarget.activeVoicingIdx = Len(arrowTarget.voicings) - 1
    /\ Len(progression) = 2
    /\ progressionChords[1].id # progressionChords[2].id

\* `12 * octave + pitch-class index`
absolutePitch(n) == 12 * n.octave + IndexOf(ALL_NOTES, n.note)

\* The strings of a voicing that are not muted, 0-based.
soundingStrings(frets) == {s \in 0..(Len(frets) - 1) : At(frets, s) # -1}

\* The pitch the s-th string sounds at a fret: its open pitch plus the fret.
stringPitch(s, fret) == absolutePitch(At(GUITAR_TUNING, s)) + fret

isNote(n) ==
    /\ DOMAIN n = {"note", "octave"}
    /\ \E k \in 1..Len(ALL_NOTES) : n.note = ALL_NOTES[k]
    /\ n.octave \in Int

\* C16: playSound hands the sound renderer one list, with one (pitch class,
\* octave) entry per non-muted string of the chord's active voicing and none
\* for a muted string, and every entry's absolute pitch is the open string's
\* absolute pitch plus the fret; getNoteAtFret gives that pitch for every
\* string 0..5 and every fret 0..15.
C16_SoundedNotes ==
    /\ Returned("playSound") =>
           /\ Len(call.ret) = 1
           /\ LET frets == At(call.args[1].voicings,
                              call.args[1].activeVoicingIdx).frets
                  handed == call.ret[1]
              IN /\ Len(handed) = Cardinality(soundingStrings(frets))
                 /\ \A k \in 1..Len(handed) : isNote(handed[k])
                 /\ \A p \in 0..127 :
                        Cardinality({k \in 1..Len(handed) :
                                        absolutePitch(handed[k]) = p})
                        = Cardinality({s \in soundingStrings(frets) :
                                          stringPitch(s, At(frets, s)) = p})
    /\ (Returned("getNoteAtFret") /\ call.args[2] \in 0..15) =>
           /\ isNote(call.ret)
           /\ absolutePitch(call.ret) = stringPitch(call.args[1], call.args[2])

\* A voicing with muted strings, and a fret that crosses into the next octave.
C16_Witness ==
    /\ Returned("playSound")
    /\ call.args[1].activeVoicingIdx > 0
    /\ Len(call.ret) = 1
    /\ Len(call.ret[1]) < 6
    /\ \E k \in 1..Len(call.ret[1]) : call.ret[1][k].octave > 4

\* The rows of the classifier's decision table.
DecisionTable ==
    {<<4, 7, <<11>>>>, <<4, 7, <<10>>>>, <<3, 7, <<10>>>>, <<3, 7, <<11>>>>,
     <<3, 6, <<10>>>>, <<3, 6, <<9>>>>,
     <<4, 7, null>>, <<3, 7, null>>, <<3, 6, null>>}

\* The quality tags the table defines.
DefinedQualities ==
    {"maj7", "7", "m7", "mMaj7", "m7b5", "dim7", "", "m", "dim"}

\* C17: for every interval combination outside the decision table (the
\* augmented triad, third 4 and fifth 8, for one) the classifier returns a tag
\* that is none of the defined qualities: never major, minor or diminished.
C17_UnresolvedTag ==
    (Returned("getQualityFromIntervals") /\ call.args \notin DecisionTable) =>
        call.ret \notin DefinedQualities

\* The qualities of the Variation siblings the claim lists for a Core chord.
listedVariations(quality, styleName) ==
    IF quality \notin {"", "7"} THEN {}
    ELSE {"sus4", "sus2"}
         \cup (IF styleName = "Pop" THEN {"add9"} ELSE {})
         \cup (IF quality = "" THEN {"6"} ELSE {})
         \cup (IF quality = "7" THEN {"7sus4"} ELSE {})

\* The catalog positions of the Variation chords made on a Core chord's degree.
siblingsOf(cat, core) ==
    {k \in 1..Len(cat) : /\ cat[k].category = "Variation"
                         /\ cat[k].scaleDegree = core.scaleDegree}

semitonesAbove(note, semitones) ==
    At(ALL_NOTES, (IndexOf(ALL_NOTES, note) + semitones) % 12)

toneSet(chord) == {chord.notes[k] : k \in 1..Len(chord.notes)}

\* C19: the notes of a sus4 sibling hold the pitch 5 semitones above the root
\* in place of the parent's third, the notes of a sus2 sibling hold the pitch 2
\* semitones above the root in place of the third, and the notes of an add9
\* sibling hold the third and the pitch 2 semitones above the root.
C19_VariationTones ==
    Returned("generateKeyChords") =>
        \A c \in 1..Len(call.ret) :
            call.ret[c].category = "Team" =>
                \A k \in siblingsOf(call.ret, call.ret[c]) :
                    LET third == call.ret[c].notes[2]
                        sibling == call.ret[k]
                    IN /\ sibling.quality = "sus4" =>
                           /\ semitonesAbove(sibling.root, 5) \in toneSet(sibling)
                           /\ third \notin toneSet(sibling)
                       /\ sibling.quality = "sus2" =>
                           /\ semitonesAbove(sibling.root, 2) \in toneSet(sibling)
                           /\ third \notin toneSet(sibling)
                       /\ sibling.quality = "add9" =>
                           /\ third \in toneSet(sibling)
                           /\ semitonesAbove(sibling.root, 2) \in toneSet(sibling)

\* The triad a Wildcard chord names: its root, the major third (quality '') or
\* the minor third (quality 'm') above it, and the perfect fifth.
wildcardTriad(chord) ==
    {chord.root,
     semitonesAbove(chord.root, IF chord.quality = "m" THEN 3 ELSE 4),
     semitonesAbove(chord.root, 7)}

scaleTones(rootName, scaleName) ==
    {scaleNotesOf(rootName, scaleName)[k] :
        k \in 1..Len(scaleNotesOf(rootName, scaleName))}

\* C20: for every root and registered scale, every Wildcard chord of the
\* catalog (its root, major or minor third and perfect fifth) has at least one
\* pitch class that is not a tone of the scale.
C20_WildcardsLeaveScale ==
    Returned("generateKeyChords") =>
        \A k \in 1..Len(call.ret) :
            call.ret[k].category = "Wildcard" =>
                \E tone \in wildcardTriad(call.ret[k]) :
                    tone \notin scaleTones(call.args[1], call.args[2])

\* The place of a voicing in the order E-shape (1), A-shape (2), first
\* inversion with bass on E (3), first inversion with bass on A (4), second
\* inversion with bass on E (5), read from its label; 0 for any other label.
voicingKind(voicing, chord) ==
    IF \/ voicing.name = "Open / Bottom"
       \/ \E n \in 1..12 : voicing.name = "Root on E (Fret " \o ToString(n) \o ")"
    THEN 1
    ELSE IF \/ voicing.name = "Open A-Style"
            \/ \E n \in 1..12 :
                   voicing.name = "Root on A (Fret " \o ToString(n) \o ")"
    THEN 2
    ELSE IF voicing.name = "/" \o chord.notes[2] \o " (Bass on E)" THEN 3
    ELSE IF voicing.name = "/" \o chord.notes[2] \o " (Bass on A)" THEN 4
    ELSE IF voicing.name = "/" \o chord.notes[3] \o " (Bass on E)" THEN 5
    ELSE 0

voicingKinds(chord) ==
    [k \in 1..Len(chord.voicings) |-> voicingKind(chord.voicings[k], chord)]

\* The voicing list is in the fixed order, with the E-shape and the A-shape
\* present, first inversions for plain major and plain minor chords only and
\* the second inversion for plain major chords only.
inFixedOrder(chord) ==
    LET kinds == voicingKinds(chord)
    IN /\ Len(kinds) >= 2
       /\ kinds[1] = 1
       /\ kinds[2] = 2
       /\ \A k \in 1..Len(kinds) : kinds[k] \in 1..5
       /\ \A k \in 1..(Len(kinds) - 1) : kinds[k] < kinds[k + 1]
       /\ \A k \in 1..Len(kinds) :
              /\ kinds[k] \in {3, 4} => chord.quality \in {"", "m"}
              /\ kinds[k] = 5 => chord.quality = ""

inversionShapeOf(kind, quality) ==
    IF kind = 3 THEN INVERSION_SHAPES[IF quality = "m" THEN "Min_3_E" ELSE "Maj_3_E"]
    ELSE IF kind = 4
    THEN INVERSION_SHAPES[IF quality = "m" THEN "Min_3_A" ELSE "Maj_3_A"]
    ELSE INVERSION_SHAPES["Maj_5_E"]

\* The bass fret of an inversion voicing: the fret of its anchor string, which
\* every template holds at offset 0.
bassFretOf(voicing, kind) == IF kind = 4 THEN voicing.frets[2] ELSE voicing.frets[1]

\* The inversion voicings of a chord, as positions of its voicing list.
inversionsOf(chord) ==
    {k \in 1..Len(chord.voicings) : voicingKinds(chord)[k] \in 3..5}

\* C22: an inversion voicing is emitted only if template offset + bass fret is
\* at least 0 on every string the template frets; an inversion with a fretted
\* string landing below 0, on -1 too, is omitted, not emitted with that string
\* muted.
C22_InversionFretsNonNegative ==
    Returned("generateKeyChords") =>
        \A c \in 1..Len(call.ret) :
            \A k \in inversionsOf(call.ret[c]) :
                LET voicing == call.ret[c].voicings[k]
                    kind == voicingKinds(call.ret[c])[k]
                    shape == inversionShapeOf(kind, call.ret[c].quality)
                IN \A str \in 1..Len(shape) :
                       shape[str] # -1 =>
                           /\ shape[str] + bassFretOf(voicing, kind) >= 0
                           /\ voicing.frets[str] = shape[str] + bassFretOf(voicing, kind)

\* The frets of a voicing that are not muted.
playedFrets(voicing) ==
    {voicing.frets[str] : str \in 1..Len(voicing.frets)} \ {-1}

lowestPlayed(voicing) ==
    CHOOSE m \in playedFrets(voicing) : \A f \in playedFrets(voicing) : m <= f

\* C23: for every voicing of every catalog chord, Wildcards included, baseFret
\* is an integer of at least 1: the lowest played fret when that is 1 or more,
\* and 1 when the lowest played fret is 0.
C23_BaseFretAtLeastOne ==
    Returned("generateKeyChords") =>
        \A c \in 1..Len(call.ret) :
            \A k \in 1..Len(call.ret[c].voicings) :
                LET voicing == call.ret[c].voicings[k]
                IN /\ playedFrets(voicing) # {}
                   /\ voicing.baseFret \in Nat
                   /\ voicing.baseFret >= 1
                   /\ voicing.baseFret =
                          IF lowestPlayed(voicing) = 0 THEN 1
                          ELSE lowestPlayed(voicing)

\* The anchor (bass) string of an inversion voicing, 0-based: A for the first
\* inversion with bass on A, E otherwise.
anchorString(kind) == IF kind = 4 THEN 1 ELSE 0

\* The pitch class of an absolute pitch.
pitchClass(pitch) == At(ALL_NOTES, pitch % 12)

\* C24: in every emitted inversion voicing the lowest sounding note is played
\* on the anchor string and is a chord tone other than the root: the chord's
\* third for a first inversion, its fifth for a second inversion.
C24_InversionBass ==
    Returned("generateKeyChords") =>
        \A c \in 1..Len(call.ret) :
            \A k \in inversionsOf(call.ret[c]) :
                LET chord == call.ret[c]
                    frets == chord.voicings[k].frets
                    kind == voicingKinds(chord)[k]
                    anchor == anchorString(kind)
                    bass == stringPitch(anchor, At(frets, anchor))
                IN /\ anchor \in soundingStrings(frets)
                   /\ \A str \in soundingStrings(frets) \ {anchor} :
                          stringPitch(str, At(frets, str)) > bass
                   /\ pitchClass(bass) # chord.root
                   /\ pitchClass(bass) =
                          IF kind = 5 THEN chord.notes[3] ELSE chord.notes[2]

\* A plain major chord returned with both first inversions and the second.
C24_Witness ==
    /\ Returned("generateKeyChords")
    /\ \E c \in 1..Len(call.ret) :
           /\ inversionsOf(call.ret[c]) = {3, 4, 5}
           /\ call.ret[c].voicings[5].name = "/G (Bass on E)"
           /\ call.ret[c].voicings[5].frets = <<3, 3, 5, 5, 5, 3>>

\* C25: whenever the next chord is a Wildcard chord of a generated catalog,
\* the transition is Surprise whatever the previous chord is (Team, Variation
\* or Wildcard): no earlier rule matches first.
C25_WildcardIsSurprise ==
    (Returned("getTransitionInfo") /\ call.args[2].category = "Wildcard") =>
        call.ret = [type |-> "adventure", label |-> "Surprise"]

\* Surprise returned after a Home chord, and the three categories of previous
\* chord are those of the catalog.
C25_Witness ==
    /\ Returned("getTransitionInfo")
    /\ call.args[1].function = "Home"
    /\ call.args[1].category = "Team"
    /\ call.args[2].category = "Wildcard"
    /\ call.ret.label = "Surprise"

\* The scale-degree numerals, lower-case and upper-case.
LowerNumerals == <<"i", "ii", "iii", "iv", "v", "vi", "vii">>

UpperNumerals == <<"I", "II", "III", "IV", "V", "VI", "VII">>

\* The marker the claim lists for a quality.
listedMarker(quality) ==
    IF quality = "7" THEN "7"
    ELSE IF quality = "maj7" THEN "Maj7"
    ELSE IF quality = "m7b5" THEN "ø"
    ELSE IF quality = "dim7" THEN "°7"
    ELSE ""

\* The third of a chord is a major third above its root.
hasMajorThird(chord) ==
    (IndexOf(ALL_NOTES, chord.notes[2]) - IndexOf(ALL_NOTES, chord.notes[1]) + 12) % 12
        = 4

\* C26: the Roman numeral of every Core chord is its scale-degree numeral,
\* upper-case exactly when its third is a major third above its root, followed
\* by the marker of its quality and no other: 7 for dominant 7, Maj7 for maj7,
\* ø for m7b5, °7 for dim7, nothing for plain triads.
C26_RomanNumerals ==
    Returned("generateKeyChords") =>
        \A c \in 1..Len(call.ret) :
            (/\ call.ret[c].category = "Team"
             /\ call.ret[c].quality \in {"7", "maj7", "m7b5", "dim7", "", "m", "dim"}) =>
                call.ret[c].roman =
                    (IF hasMajorThird(call.ret[c])
                     THEN UpperNumerals[call.ret[c].scaleDegree]
                     ELSE LowerNumerals[call.ret[c].scaleDegree])
                    \o listedMarker(call.ret[c].quality)

\* chord is a copy addChord made of template: the template's fields under an
\* id extended by a clock value, on any of its voicings.
isCopyOf(chord, template) ==
    \E t \in 0..MaxClock :
        chord = [template EXCEPT
                    !.id = template.id \o "-" \o ToString(t),
                    !.activeVoicingIdx = chord.activeVoicingIdx]

\* C27: every change of root, scale or style empties the progression, so in
\* every reachable state each chord of the progression is a copy of a chord of
\* the catalog of the selected root, scale and style.
C27_ProgressionOfCurrentKey ==
    /\ allChords = catalogOf[<<root, scaleType, style>>]
    /\ \A k \in 1..Len(progression) :
           \E j \in 1..Len(allChords) : isCopyOf(progressionChords[k], allChords[j])

\* After changes of all three selectors, a progression built in the new key.
C27_Witness ==
    /\ root # "C"
    /\ scaleType # "Major"
    /\ style # "Pop"
    /\ Len(progression) = 2
    /\ progressionChords[1].id # progressionChords[2].id

\* The selected chord is an element of the progression.
selectedInProgression ==
    /\ selectedChord # null
    /\ \E k \in 1..Len(progression) : progression[k] = selectedChord

\* C28: the voicing arrows walk the selected chord's n voicings cyclically:
\* changeVoicing(delta) takes its activeVoicingIdx i to (i + delta) modulo n,
\* so that +1 followed by -1 restores it, n times +1 restore it, and -1 from
\* index 0 gives n - 1.
C28_CyclicWalk ==
    [][\A delta \in {1, -1} :
           (selectedInProgression /\ changeVoicing(delta)) =>
               heap'[selectedChord[2]].activeVoicingIdx
                   = (Deref(selectedChord).activeVoicingIdx + delta
                      + Len(Deref(selectedChord).voicings))
                     % Len(Deref(selectedChord).voicings)]_vars

\* C29: changeVoicing changes the activeVoicingIdx of the selected chord only:
\* the progression keeps its length and order and every other chord keeps its
\* activeVoicingIdx; when no chord is selected, or the selected chord is no
\* longer in the progression, the progression is left as it was.
C29_OnlySelectedChanges ==
    [][\A delta \in {1, -1} :
           changeVoicing(delta) =>
               /\ progression' = progression
               /\ \A k \in 1..Len(progression) :
                      progression[k] # selectedChord =>
                          progressionChords'[k] = progressionChords[k]
               /\ ~selectedInProgression =>
                      progressionChords' = progressionChords]_vars

\* The fold-down branch of createVoicingFromShape is taken for the k-th entry
\* of the shape.
foldsDown(shape, rootFret, k) ==
    /\ shape[k] # -1
    /\ shape[k] + rootFret > 12
    /\ shape[1] # -1
    /\ shape[1] + rootFret > 12

\* C30: for every root and every shape template the fold-down branch of
\* createVoicingFromShape is never taken (the root fret is in 0..11 and the
\* template's first entry is 0 or muted), so every E-shape and A-shape fret is
\* -1 or the template offset plus the root fret, and no fret of a generated
\* voicing exceeds 15.
C30_NoFoldDown ==
    /\ Returned("createVoicingFromShape") =>
           LET shape == call.args[1]
               rootFret == call.args[2]
           IN /\ rootFret \in 0..11
              /\ shape[1] \in {0, -1}
              /\ \A k \in 1..Len(shape) :
                     /\ ~foldsDown(shape, rootFret, k)
                     /\ call.ret[k] =
                            IF shape[k] = -1 THEN -1 ELSE shape[k] + rootFret
                     /\ call.ret[k] <= 15
    /\ Returned("generateKeyChords") =>
           \A c \in 1..Len(call.ret) :
               \A k \in 1..Len(call.ret[c].voicings) :
                   \A str \in 1..Len(call.ret[c].voicings[k].frets) :
                       call.ret[c].voicings[k].frets[str] \in -1..15

\* The sus2 E-shape shifted to root fret 11: the highest fret, 15.
C30_Witness ==
    /\ Returned("createVoicingFromShape")
    /\ call.args = <<CHORD_SHAPES["sus2"].eShape, 11>>
    /\ call.ret = <<11, 13, 15, 15, 11, 11>>
====
